---- MODULE Spec2Model ----
(***************************************************************************)
(* State-machine model of src/lib/crypto/OSSLCryptoFactory.cpp:            *)
(* the OpenSSL crypto factory singleton, its legacy locking callback, the  *)
(* TPM2 TCTI plugin loader and the algorithm dispatch functions.           *)
(*                                                                         *)
(* Every function of the file is executed by a thread as a sequence of     *)
(* labelled steps (pc); one step is one statement group of the source.     *)
(* Pointers are naturals (NULL = 0, heap addresses > 0); an uninitialised  *)
(* data member holds UNINIT.  Outcomes of library and plugin calls         *)
(* (dlopen, dlsym, the TCTI initialiser, calloc, the ENGINE and Tss2_Sys   *)
(* functions)                                                              *)
(* are chosen nondeterministically.                                        *)
(***************************************************************************)
EXTENDS Integers, Sequences, FiniteSets, TLC

\* ---------------------------------------------------------------- bounds
\* Number of threads of the process.
NThreads == 2
\* Value CRYPTO_num_locks() reports on a build with the legacy locking API.
NumLocks == 2
\* Number of factory constructions a run may start.
MaxCtor == 2
\* Number of dispatch calls (getXxxAlgorithm) a run may make.
MaxDispatch == 2
\* Number of direct calls of tpm2_tcti_ldr_load a run may make.
MaxLoads == 2
\* Width of int and unsigned in the model (TLC's integers are narrower than
\* 2^32; the conversion (unsigned) n is the same at every width).
UINT_BITS == 16

\* ------------------------------------------------------------- constants
NULL == 0
\* value of a data member the constructor never assigned
UNINIT == 0 - 1
\* sizeof(path) in tpm2_tcti_ldr_dlopen
PATH_MAX == 4096
\* strlen("libtss2-tcti-") + strlen(".so.0"), the fixed part of TSS2_TCTI_SO_FORMAT
SO_FORMAT_LEN == 18
\* mode bits of the legacy locking callback
CRYPTO_LOCK == 1
CRYPTO_UNLOCK == 2
CRYPTO_READ == 4
CRYPTO_WRITE == 8

Threads == 1..NThreads

VARIABLES
  build,            \* compile-time configuration of the library
  env,              \* the failures the environment of this run can produce
  instance,         \* OSSLCryptoFactory::instance (the smart-pointer slot)
  nlocks,           \* static unsigned nlocks
  locks,            \* static Mutex** locks (address of the pool, NULL before)
  handle,           \* static void *handle (plugin handle)
  info,             \* static const TSS2_TCTI_INFO *info
  tcti,             \* static TSS2_TCTI_CONTEXT *tcti
  lockingCallback,  \* callback registered with the crypto library
  fipsMode,         \* FIPS_mode() of the crypto library
  dlRef,            \* reference count of every loadable module (dlopen/dlclose)
  heap,             \* heap objects by address: factories, pools, buffers
  pc,               \* per thread: current statement
  stk,              \* per thread: return labels of the calls in progress
  this,             \* per thread: object of the constructor/destructor running
  newp,             \* per thread: result of `new OSSLCryptoFactory()` in i()
  loc,              \* per thread: locals of the function running
  ret,              \* per thread: last call completed and its result
  hist,             \* bookkeeping of calls made (counters, results seen)
  ub,               \* undefined behaviour executed so far
  crashed           \* the process was killed by a fault

vars == <<build, env, instance, nlocks, locks, handle, info, tcti, lockingCallback,
          fipsMode, dlRef, heap, pc, stk, this, newp, loc, ret, hist, ub, crashed>>

globals == <<instance, nlocks, locks, handle, info, tcti, lockingCallback,
             fipsMode, dlRef>>

\* ------------------------------------------------------------ data types
\* A C string is modelled by its text and its length.
TabrmdName == [name |-> <<"tabrmd">>, len |-> 6]
LongName == [name |-> <<"long">>, len |-> PATH_MAX - SO_FORMAT_LEN]
Paths == {TabrmdName, LongName}

\* Loadable modules: the one found under the verbatim path and the one found
\* under the formatted name.
Libs == {1, 2}

\* The size the initialiser of a loaded module reports for its context (in
\* allocation units; each module has its own), and the size
\* Tss2_Sys_GetContextSize(0) reports.
TctiSize(lib) == lib + 1
SysContextSize == 3

Builds == [fips : BOOLEAN, gost : BOOLEAN, legacy : BOOLEAN,
           ecc : BOOLEAN, eddsa : BOOLEAN]
\* The optional algorithm families matter to dispatch alone.
LifecycleBuilds == {b \in Builds : ~b.ecc /\ ~b.eddsa}
PlainBuild == [fips |-> FALSE, gost |-> FALSE, legacy |-> TRUE,
               ecc |-> FALSE, eddsa |-> FALSE]

NoLoc == [path |-> TabrmdName, tcti_ctx |-> NULL, size |-> 0, res |-> NULL,
          calls |-> <<>>, opens |-> <<>>, opened |-> NULL]
NoRet == [op |-> "none", arg |-> "", val |-> NULL, type |-> ""]
NoCb == [t |-> 0, mode |-> 0, n |-> 0, done |-> 0]
NoHist == [nCtor |-> 0, ctorsSinceReset |-> 0, retsSinceReset |-> {},
           nNew |-> 0, nLoads |-> 0, held |-> [t \in Threads |-> {}],
           lastCb |-> NoCb]

\* Calls into the system, the plugin and the crypto library that can fail.
Faults == {"fips", "rdrand", "dlopen", "dlopen2", "dlsym", "init1", "calloc_tcti",
           "init2", "calloc_ctx", "sysinit", "gost"}
\* Environments: every failure can happen / at most one kind of failure can.
AnyFault == {Faults}
OneFault == {{}} \cup {{f} : f \in Faults}
OpenFault == {{"dlopen"}}
\* The results a call can have in this run (TRUE: success).
Outcome(f) == IF f \in env THEN BOOLEAN ELSE {TRUE}

\* ---------------------------------------------------------------- heap
\* The heap maps the addresses handed out so far to the objects there.  The
\* allocator serves every thread from its own arena and every kind of object
\* from its own size class, so an address names (thread, kind, serial number).
KindIdx(kind) == CASE kind = "factory" -> 0 [] kind = "pool" -> 1 [] kind = "rng" -> 2
                   [] kind = "tctictx" -> 3 [] kind = "sysctx" -> 4
ArenaOf(a) == a \div 100
NewAddr(h, t, kind) ==
  100 * t + 10 * KindIdx(kind)
    + Cardinality({a \in DOMAIN h : ArenaOf(a) = t /\ h[a].kind = kind})
Alloc(h, t, rec) == h @@ (NewAddr(h, t, rec.kind) :> rec)
Live(h, a) == a \in DOMAIN h /\ h[a].st = "live"
Freed(h, a) == a \in DOMAIN h /\ h[a].st = "freed"
\* free/delete: the content of released memory is not part of the state.
Release(h, a) == [h EXCEPT ![a] = [kind |-> @.kind, st |-> "freed"]]

NewFactory == [kind |-> "factory", st |-> "live",
               setLockingCallback |-> UNINIT, rdrand_engine |-> UNINIT,
               rng |-> UNINIT, context |-> UNINIT, eg |-> UNINIT,
               rdrand |-> "notrun", gost |-> "notrun", tpm |-> "notrun",
               torn |-> <<>>]
NewPool(n) == [kind |-> "pool", st |-> "live", size |-> n,
               holder |-> [i \in 0..(n - 1) |-> 0]]
NewRng == [kind |-> "rng", st |-> "live"]
NewTctiCtx(sz, lib) == [kind |-> "tctictx", st |-> "live", size |-> sz,
                        lib |-> lib, inited |-> FALSE]
NewSysCtx(sz) == [kind |-> "sysctx", st |-> "live", size |-> sz,
                  inited |-> FALSE, tcti |-> NULL]

\* ------------------------------------------------------- control helpers
Goto(t, l) == pc' = [pc EXCEPT ![t] = l]
Call(t, l, back) == /\ pc' = [pc EXCEPT ![t] = l]
                    /\ stk' = [stk EXCEPT ![t] = <<back>> \o @]
Return(t) == /\ pc' = [pc EXCEPT ![t] = Head(stk[t])]
             /\ stk' = [stk EXCEPT ![t] = Tail(@)]
At(t, l) == ~crashed /\ pc[t] = l

\* The process dies: nothing runs afterwards.
Crash(why) == /\ crashed' = TRUE
              /\ ub' = ub \cup {why}
              /\ UNCHANGED <<build, env, globals, heap, pc, stk, this, newp, loc, ret, hist>>

InitWith(B, E) ==
  /\ build \in B
  /\ env \in E
  /\ instance = NULL
  /\ nlocks = 0
  /\ locks = NULL
  /\ handle = NULL
  /\ info = NULL
  /\ tcti = NULL
  /\ lockingCallback \in (IF build.legacy THEN {"none", "other"} ELSE {"none"})
  /\ fipsMode = FALSE
  /\ dlRef = [l \in Libs |-> 0]
  /\ heap = [a \in {} |-> NULL]
  /\ pc = [t \in Threads |-> "idle"]
  /\ stk = [t \in Threads |-> <<>>]
  /\ this = [t \in Threads |-> NULL]
  /\ newp = [t \in Threads |-> NULL]
  /\ loc = [t \in Threads |-> NoLoc]
  /\ ret = [t \in Threads |-> NoRet]
  /\ hist = NoHist
  /\ ub = {}
  /\ crashed = FALSE


\* ================================================= transport plugin loader
\* TSS2_TCTI_SO_FORMAT applied to a name: snprintf's result and return value.
\* (variant that retries with the name as given)
FormattedName_Verbatim(p) == p
FormattedName(p) == [name |-> <<"libtss2-tcti-">> \o p.name \o <<".so.0">>,
                     len |-> p.len + SO_FORMAT_LEN]

\* tpm2_tcti_ldr_dlopen gives up without calling dlopen when the formatted
\* name does not fit the buffer.
FormatTruncated(p) == FormattedName(p).len >= PATH_MAX

\* if (handle) return NULL;
\* (variant without the test: a faulty loader that never rejects)
LoadRejected_NoCheck(h) == FALSE
LoadRejected(h) == h # NULL

\* dlclose of a handle: the module's reference count drops (the module is
\* unmapped at zero); closing a handle that is not open is undefined.
DlClose(refs, h) == IF h \in Libs /\ refs[h] > 0
                    THEN [refs EXCEPT ![h] = @ - 1] ELSE refs

\* tpm2_tcti_ldr_unload, as a function of (handle, info, dlRef): DISABLE_DLCLOSE
\* is defined, so the module is not closed.
\* (variant that forgets `info = NULL`)
tpm2_tcti_ldr_unload_KeepsInfo(h, i, refs) ==
  IF h # NULL THEN [handle |-> NULL, info |-> i, dlRef |-> refs]
              ELSE [handle |-> h, info |-> i, dlRef |-> refs]
\* (variant built without DISABLE_DLCLOSE: the module is closed)
tpm2_tcti_ldr_unload_Closes(h, i, refs) ==
  IF h # NULL THEN [handle |-> NULL, info |-> NULL, dlRef |-> DlClose(refs, h)]
              ELSE [handle |-> h, info |-> i, dlRef |-> refs]
tpm2_tcti_ldr_unload(h, i, refs) ==
  IF h # NULL THEN [handle |-> NULL, info |-> NULL, dlRef |-> refs]
              ELSE [handle |-> h, info |-> i, dlRef |-> refs]

\* Leaving tpm2_tcti_ldr_load with a result.
LdrReturn(t, res, l) ==
  /\ loc' = [loc EXCEPT ![t] = [l EXCEPT !.res = res]]
  /\ Return(t)

\* lines 130-135
l_check(t) ==
  /\ At(t, "l_check")
  /\ IF LoadRejected(handle)
     THEN LdrReturn(t, NULL, [loc[t] EXCEPT !.tcti_ctx = NULL])
     ELSE /\ loc' = [loc EXCEPT ![t].tcti_ctx = NULL]
          /\ Goto(t, "l_dlopen")
          /\ UNCHANGED stk
  /\ UNCHANGED <<build, env, globals, heap, this, newp, ret, hist, ub, crashed>>

\* lines 141-142: dlopen(path, RTLD_LAZY)
l_dlopen(t) ==
  /\ At(t, "l_dlopen")
  /\ \E ok \in Outcome("dlopen") :
       /\ handle' = IF ok THEN 1 ELSE NULL
       /\ dlRef' = IF ok THEN [dlRef EXCEPT ![1] = @ + 1] ELSE dlRef
       /\ loc' = [loc EXCEPT ![t] = [@ EXCEPT !.opens = Append(@, loc[t].path),
                                              !.opened = IF ok THEN 1 ELSE NULL]]
       /\ Goto(t, IF ok THEN "l_dlsym" ELSE "l_dlopen2")
  /\ UNCHANGED <<build, env, instance, nlocks, locks, info, tcti, lockingCallback,
                 fipsMode, heap, stk, this, newp, ret, hist, ub, crashed>>

\* lines 144-148 with tpm2_tcti_ldr_dlopen (110-118)
l_dlopen2(t) ==
  /\ At(t, "l_dlopen2")
  /\ \E ok \in Outcome("dlopen2") :
       LET tried == ~FormatTruncated(loc[t].path)
           got == tried /\ ok
           l2 == IF tried
                 THEN [loc[t] EXCEPT !.opens = Append(@, FormattedName(loc[t].path)),
                                     !.opened = IF got THEN 2 ELSE NULL]
                 ELSE loc[t]
       IN /\ handle' = IF got THEN 2 ELSE NULL
          /\ dlRef' = IF got THEN [dlRef EXCEPT ![2] = @ + 1] ELSE dlRef
          /\ IF got
             THEN /\ loc' = [loc EXCEPT ![t] = l2]
                  /\ Goto(t, "l_dlsym")
                  /\ UNCHANGED stk
             ELSE LdrReturn(t, NULL, l2)
  /\ UNCHANGED <<build, env, instance, nlocks, locks, info, tcti, lockingCallback,
                 fipsMode, heap, this, newp, ret, hist, ub, crashed>>

\* lines 151-157: dlsym(handle, TSS2_TCTI_INFO_SYMBOL)
l_dlsym(t) ==
  /\ At(t, "l_dlsym")
  /\ \E ok \in Outcome("dlsym") :
       IF ok
       THEN /\ Goto(t, "l_info")
            /\ UNCHANGED <<dlRef, loc, stk>>
       ELSE /\ dlRef' = DlClose(dlRef, handle)
            /\ LdrReturn(t, NULL, loc[t])
  /\ UNCHANGED <<build, env, instance, nlocks, locks, handle, info, tcti,
                 lockingCallback, fipsMode, heap, this, newp, ret, hist, ub, crashed>>

\* lines 159-170: info = infofn(); first (sizing) call of the initialiser
l_info(t) ==
  /\ At(t, "l_info")
  /\ info' = handle
  /\ \E ok \in Outcome("init1") :
       LET l2 == [loc[t] EXCEPT !.calls = Append(@, [buf |-> NULL, size |-> 0]),
                                !.size = IF ok THEN TctiSize(handle) ELSE 0]
       IN IF ok
          THEN /\ loc' = [loc EXCEPT ![t] = l2]
               /\ Goto(t, "l_calloc")
               /\ UNCHANGED <<dlRef, stk>>
          ELSE /\ dlRef' = DlClose(dlRef, handle)
               /\ LdrReturn(t, NULL, l2)
  /\ UNCHANGED <<build, env, instance, nlocks, locks, handle, tcti, lockingCallback,
                 fipsMode, heap, this, newp, ret, hist, ub, crashed>>

\* line 172: the number of bytes asked of calloc(1, size)
\* (variant that allocates a fixed-size buffer whatever the initialiser reported)
CallocSize_Fixed(l) == 1
CallocSize(l) == l.size

\* lines 172-177: calloc(1, size)
l_calloc(t) ==
  /\ At(t, "l_calloc")
  /\ \E ok \in Outcome("calloc_tcti") :
       IF ok
       THEN /\ heap' = Alloc(heap, t, NewTctiCtx(CallocSize(loc[t]), handle))
            /\ loc' = [loc EXCEPT ![t].tcti_ctx = NewAddr(heap, t, "tctictx")]
            /\ Goto(t, "l_init2")
            /\ UNCHANGED <<dlRef, stk>>
       ELSE /\ dlRef' = DlClose(dlRef, handle)
            /\ LdrReturn(t, NULL, loc[t])
            /\ UNCHANGED heap
  /\ UNCHANGED <<build, env, instance, nlocks, locks, handle, info, tcti,
                 lockingCallback, fipsMode, this, newp, ret, hist, ub, crashed>>

\* lines 179-187: second call of the initialiser, on the buffer
l_init2(t) ==
  /\ At(t, "l_init2")
  /\ \E ok \in Outcome("init2") :
       LET c == loc[t].tcti_ctx
           l2 == [loc[t] EXCEPT !.calls = Append(@, [buf |-> c, size |-> loc[t].size])]
       IN IF ok
          THEN /\ heap' = [heap EXCEPT ![c].inited = TRUE]
               /\ LdrReturn(t, c, l2)
               /\ UNCHANGED dlRef
          ELSE /\ heap' = Release(heap, c)
               /\ dlRef' = DlClose(dlRef, handle)
               /\ LdrReturn(t, NULL, l2)
  /\ UNCHANGED <<build, env, instance, nlocks, locks, handle, info, tcti,
                 lockingCallback, fipsMode, this, newp, ret, hist, ub, crashed>>


\* ============================================================ constructor
\* CRYPTO_num_locks(): a macro yielding 1 from OpenSSL 1.1.0 on.
CRYPTO_num_locks(b) == IF b.legacy THEN NumLocks ELSE 1

SetField(h, a, f, v) == [h EXCEPT ![a] = [@ EXCEPT ![f] = v]]

\* lines 218-223
c_locks(t) ==
  /\ At(t, "c_locks")
  /\ nlocks' = CRYPTO_num_locks(build)
  /\ heap' = Alloc(heap, t, NewPool(CRYPTO_num_locks(build)))
  /\ locks' = NewAddr(heap, t, "pool")
  /\ Goto(t, "c_cb")
  /\ UNCHANGED <<build, env, instance, handle, info, tcti, lockingCallback, fipsMode,
                 dlRef, stk, this, newp, loc, ret, hist, ub, crashed>>

\* line 227: CRYPTO_get_locking_callback() == NULL
\* (variant that installs without looking)
NoCallbackInstalled_Unchecked(cb) == TRUE
NoCallbackInstalled(cb) == cb = "none"

\* lines 225-232
c_cb(t) ==
  /\ At(t, "c_cb")
  /\ IF build.legacy
     THEN IF NoCallbackInstalled(lockingCallback)
          THEN /\ lockingCallback' = "ours"
               /\ heap' = SetField(heap, this[t], "setLockingCallback", 1)
          ELSE /\ heap' = SetField(heap, this[t], "setLockingCallback", 0)
               /\ UNCHANGED lockingCallback
     ELSE UNCHANGED <<lockingCallback, heap>>
  /\ Goto(t, "c_fips")
  /\ UNCHANGED <<build, env, instance, nlocks, locks, handle, info, tcti, fipsMode,
                 dlRef, stk, this, newp, loc, ret, hist, ub, crashed>>

\* lines 234-249
c_fips(t) ==
  /\ At(t, "c_fips")
  /\ IF build.fips /\ ~fipsMode
     THEN \E ok \in Outcome("fips") :
            IF ok
            THEN /\ fipsMode' = TRUE
                 /\ Goto(t, "c_rdrand")
            ELSE /\ Goto(t, "c_ret")
                 /\ UNCHANGED fipsMode
     ELSE /\ Goto(t, "c_rdrand")
          /\ UNCHANGED fipsMode
  /\ UNCHANGED <<build, env, instance, nlocks, locks, handle, info, tcti,
                 lockingCallback, dlRef, heap, stk, this, newp, loc, ret, hist, ub, crashed>>

RdrandOutcomes == {"missing", "init_fail", "default_fail", "ok"}

\* Where construction continues after the RDRAND engine attempt.
\* (variant that gives up construction when the engine is unusable)
AfterRdrand_Abort(o) == IF o = "ok" THEN "c_rng" ELSE "c_ret"
AfterRdrand(o) == "c_rng"

\* lines 252-271
c_rdrand(t) ==
  /\ At(t, "c_rdrand")
  /\ \E o \in (IF "rdrand" \in env THEN RdrandOutcomes ELSE {"ok"}) :
       /\ heap' = [heap EXCEPT ![this[t]] =
                     [@ EXCEPT !.rdrand_engine = IF o = "missing" THEN NULL ELSE 1,
                               !.rdrand = o]]
       /\ Goto(t, AfterRdrand(o))
  /\ UNCHANGED <<build, env, globals, stk, this, newp, loc, ret, hist, ub, crashed>>

\* line 274
c_rng(t) ==
  /\ At(t, "c_rng")
  /\ heap' = SetField(Alloc(heap, t, NewRng), this[t], "rng", NewAddr(heap, t, "rng"))
  /\ Goto(t, "c_tpm")
  /\ UNCHANGED <<build, env, globals, stk, this, newp, loc, ret, hist, ub, crashed>>

\* line 280: the call of tpm2_tcti_ldr_load("tabrmd")
c_tpm(t) ==
  /\ At(t, "c_tpm")
  /\ loc' = [loc EXCEPT ![t] = [NoLoc EXCEPT !.path = TabrmdName]]
  /\ Call(t, "l_check", "c_tpm_ret")
  /\ UNCHANGED <<build, env, globals, heap, this, newp, ret, hist, ub, crashed>>

\* lines 280-285: tcti = <result>; if (!tcti) return;
c_tpm_ret(t) ==
  /\ At(t, "c_tpm_ret")
  /\ tcti' = loc[t].res
  /\ loc' = [loc EXCEPT ![t] = NoLoc]
  /\ IF loc[t].res = NULL
     THEN /\ heap' = SetField(heap, this[t], "tpm", "load_failed")
          /\ Goto(t, "c_ret")
     ELSE /\ Goto(t, "c_ctx_alloc")
          /\ UNCHANGED heap
  /\ UNCHANGED <<build, env, instance, nlocks, locks, handle, info, lockingCallback,
                 fipsMode, dlRef, stk, this, newp, ret, hist, ub, crashed>>

\* lines 287-293
c_ctx_alloc(t) ==
  /\ At(t, "c_ctx_alloc")
  /\ \E ok \in Outcome("calloc_ctx") :
       IF ok
       THEN /\ heap' = SetField(Alloc(heap, t, NewSysCtx(SysContextSize)), this[t],
                                "context", NewAddr(heap, t, "sysctx"))
            /\ Goto(t, "c_ctx_init")
       ELSE /\ heap' = [heap EXCEPT ![this[t]] =
                          [@ EXCEPT !.context = NULL, !.tpm = "alloc_failed"]]
            /\ Goto(t, "c_ret")
  /\ UNCHANGED <<build, env, globals, stk, this, newp, loc, ret, hist, ub, crashed>>

\* lines 295-303
c_ctx_init(t) ==
  /\ At(t, "c_ctx_init")
  /\ \E ok \in Outcome("sysinit") :
       LET c == heap[this[t]].context
       IN IF ok
          THEN /\ heap' = [heap EXCEPT ![c] = [@ EXCEPT !.inited = TRUE, !.tcti = tcti],
                                       ![this[t]] = [@ EXCEPT !.tpm = "ok"]]
               /\ Goto(t, "c_gost")
          ELSE /\ heap' = SetField(Release(heap, c), this[t], "tpm", "init_failed")
               /\ Goto(t, "c_ret")
  /\ UNCHANGED <<build, env, globals, stk, this, newp, loc, ret, hist, ub, crashed>>

GostOutcomes == {"missing", "init_fail", "digest_fail", "asn1_fail", "params_fail", "ok"}

\* lines 306-361
c_gost(t) ==
  /\ At(t, "c_gost")
  /\ IF build.gost
     THEN \E o \in (IF "gost" \in env THEN GostOutcomes ELSE {"ok"}) :
            heap' = [heap EXCEPT ![this[t]] =
                       [@ EXCEPT !.eg = IF o = "ok" THEN 1 ELSE NULL, !.gost = o]]
     ELSE UNCHANGED heap
  /\ Goto(t, "c_ret")
  /\ UNCHANGED <<build, env, globals, stk, this, newp, loc, ret, hist, ub, crashed>>

\* every `return` of the constructor, and its closing brace (line 362)
c_ret(t) ==
  /\ At(t, "c_ret")
  /\ Return(t)
  /\ UNCHANGED <<build, env, globals, heap, this, newp, loc, ret, hist, ub, crashed>>


\* ============================================================= destructor
\* The statements of ~OSSLCryptoFactory in program order (lines 367-412).
\* (variant that unloads the plugin before finalizing the transport context)
DtorOrder_UnloadFirst == <<"d_gettcti", "d_sysfin", "d_unload", "d_tctifin", "d_gost",
                           "d_rng", "d_cb", "d_locks", "d_delete">>
DtorOrder == <<"d_gettcti", "d_sysfin", "d_tctifin", "d_unload", "d_gost",
               "d_rng", "d_cb", "d_locks", "d_delete">>
DtorFirst == DtorOrder[1]
DtorAfter(l) == LET i == CHOOSE k \in 1..Len(DtorOrder) : DtorOrder[k] = l
                IN DtorOrder[i + 1]

Torn(h, a, what) == [h EXCEPT ![a].torn = Append(@, what)]

\* Tss2_Sys_GetTctiContext(context, &tcti_ctx) on a context that is NULL or a
\* live initialised buffer: the status and the value stored.
Tss2_Sys_GetTctiContext(h, c) ==
  IF c # NULL /\ Live(h, c) /\ h[c].inited
  THEN [ok |-> TRUE, tcti |-> h[c].tcti]
  ELSE [ok |-> FALSE, tcti |-> NULL]

\* lines 368-373
d_gettcti(t) ==
  /\ At(t, "d_gettcti")
  /\ LET c == heap[this[t]].context
     IN \/ /\ c = NULL \/ Live(heap, c)
           /\ LET r == Tss2_Sys_GetTctiContext(heap, c)
              IN loc' = [loc EXCEPT ![t].tcti_ctx = IF r.ok THEN r.tcti ELSE NULL]
           /\ Goto(t, DtorAfter("d_gettcti"))
           /\ UNCHANGED <<build, env, globals, heap, stk, this, newp, ret, hist, ub, crashed>>
        \* the member was never assigned: its value is indeterminate
        \/ /\ c = UNINIT
           /\ \/ Crash("uninitialised context")
              \/ /\ heap' = SetField(heap, this[t], "context", NULL)
                 /\ loc' = [loc EXCEPT ![t].tcti_ctx = NULL]
                 /\ ub' = ub \cup {"uninitialised context"}
                 /\ Goto(t, DtorAfter("d_gettcti"))
                 /\ UNCHANGED <<build, env, globals, stk, this, newp, ret, hist, crashed>>
        \* the constructor freed the buffer and kept the pointer
        \/ /\ Freed(heap, c)
           /\ \/ Crash("context used after free")
              \/ /\ \E x \in {NULL, tcti} :
                      loc' = [loc EXCEPT ![t].tcti_ctx = x]
                 /\ ub' = ub \cup {"context used after free"}
                 /\ Goto(t, DtorAfter("d_gettcti"))
                 /\ UNCHANGED <<build, env, globals, heap, stk, this, newp, ret, hist, crashed>>

\* lines 375-376: Tss2_Sys_Finalize(context); free(context);
d_sysfin(t) ==
  /\ At(t, "d_sysfin")
  /\ LET c == heap[this[t]].context
     IN \/ /\ c = NULL
           /\ heap' = Torn(heap, this[t], "context")
           /\ Goto(t, DtorAfter("d_sysfin"))
           /\ UNCHANGED <<build, env, globals, stk, this, newp, loc, ret, hist, ub, crashed>>
        \/ /\ Live(heap, c)
           /\ heap' = Torn(Release(heap, c), this[t], "context")
           /\ Goto(t, DtorAfter("d_sysfin"))
           /\ UNCHANGED <<build, env, globals, stk, this, newp, loc, ret, hist, ub, crashed>>
        \/ /\ c = UNINIT
           /\ \/ Crash("uninitialised context")
              \/ /\ heap' = Torn(SetField(heap, this[t], "context", NULL), this[t], "context")
                 /\ ub' = ub \cup {"uninitialised context"}
                 /\ Goto(t, DtorAfter("d_sysfin"))
                 /\ UNCHANGED <<build, env, globals, stk, this, newp, loc, ret, hist, crashed>>
        \/ /\ Freed(heap, c)
           /\ \/ Crash("context freed twice")
              \/ /\ heap' = Torn(heap, this[t], "context")
                 /\ ub' = ub \cup {"context freed twice"}
                 /\ Goto(t, DtorAfter("d_sysfin"))
                 /\ UNCHANGED <<build, env, globals, stk, this, newp, loc, ret, hist, crashed>>

\* lines 378-382: if (tcti_ctx) { Tss2_Tcti_Finalize(tcti_ctx); free(tcti_ctx); }
d_tctifin(t) ==
  /\ At(t, "d_tctifin")
  /\ LET x == loc[t].tcti_ctx
     IN \/ /\ x = NULL
           /\ Goto(t, DtorAfter("d_tctifin"))
           /\ UNCHANGED <<build, env, globals, heap, stk, this, newp, loc, ret, hist, ub, crashed>>
        \/ /\ x # NULL /\ Live(heap, x)
           /\ heap' = Torn(Release(heap, x), this[t], "tcti")
           /\ loc' = [loc EXCEPT ![t].tcti_ctx = NULL]
           /\ Goto(t, DtorAfter("d_tctifin"))
           /\ UNCHANGED <<build, env, globals, stk, this, newp, ret, hist, ub, crashed>>
        \/ /\ x # NULL /\ ~Live(heap, x)
           /\ \/ Crash("transport context freed twice")
              \/ /\ loc' = [loc EXCEPT ![t].tcti_ctx = NULL]
                 /\ ub' = ub \cup {"transport context freed twice"}
                 /\ Goto(t, DtorAfter("d_tctifin"))
                 /\ UNCHANGED <<build, env, globals, heap, stk, this, newp, ret, hist, crashed>>

\* line 384: tpm2_tcti_ldr_unload();
d_unload(t) ==
  /\ At(t, "d_unload")
  /\ LET u == tpm2_tcti_ldr_unload(handle, info, dlRef)
     IN /\ handle' = u.handle
        /\ info' = u.info
        /\ dlRef' = u.dlRef
  /\ heap' = Torn(heap, this[t], "unload")
  /\ Goto(t, DtorAfter("d_unload"))
  /\ UNCHANGED <<build, env, instance, nlocks, locks, tcti, lockingCallback, fipsMode,
                 stk, this, newp, loc, ret, hist, ub, crashed>>

\* lines 387-395
d_gost(t) ==
  /\ At(t, "d_gost")
  /\ LET e == heap[this[t]].eg
     IN \/ /\ ~build.gost \/ e = NULL
           /\ Goto(t, DtorAfter("d_gost"))
           /\ UNCHANGED <<build, env, globals, heap, stk, this, newp, loc, ret, hist, ub, crashed>>
        \/ /\ build.gost /\ e > NULL
           /\ heap' = Torn(SetField(heap, this[t], "eg", NULL), this[t], "gost")
           /\ Goto(t, DtorAfter("d_gost"))
           /\ UNCHANGED <<build, env, globals, stk, this, newp, loc, ret, hist, ub, crashed>>
        \/ /\ build.gost /\ e = UNINIT
           /\ \/ Crash("uninitialised eg")
              \/ /\ heap' = SetField(heap, this[t], "eg", NULL)
                 /\ ub' = ub \cup {"uninitialised eg"}
                 /\ Goto(t, DtorAfter("d_gost"))
                 /\ UNCHANGED <<build, env, globals, stk, this, newp, loc, ret, hist, crashed>>

\* line 398: delete rng;
d_rng(t) ==
  /\ At(t, "d_rng")
  /\ LET r == heap[this[t]].rng
     IN \/ /\ r = NULL
           /\ Goto(t, DtorAfter("d_rng"))
           /\ UNCHANGED <<build, env, globals, heap, stk, this, newp, loc, ret, hist, ub, crashed>>
        \/ /\ r # NULL /\ Live(heap, r)
           /\ heap' = Torn(Release(heap, r), this[t], "rng")
           /\ Goto(t, DtorAfter("d_rng"))
           /\ UNCHANGED <<build, env, globals, stk, this, newp, loc, ret, hist, ub, crashed>>
        \/ /\ r = UNINIT
           /\ \/ Crash("uninitialised rng")
              \/ /\ heap' = SetField(heap, this[t], "rng", NULL)
                 /\ ub' = ub \cup {"uninitialised rng"}
                 /\ Goto(t, DtorAfter("d_rng"))
                 /\ UNCHANGED <<build, env, globals, stk, this, newp, loc, ret, hist, crashed>>

\* lines 400-406
d_cb(t) ==
  /\ At(t, "d_cb")
  /\ IF build.legacy /\ heap[this[t]].setLockingCallback = 1
     THEN /\ lockingCallback' = "none"
          /\ heap' = Torn(heap, this[t], "callback")
     ELSE UNCHANGED <<lockingCallback, heap>>
  /\ Goto(t, DtorAfter("d_cb"))
  /\ UNCHANGED <<build, env, instance, nlocks, locks, handle, info, tcti, fipsMode,
                 dlRef, stk, this, newp, loc, ret, hist, ub, crashed>>

\* lines 407-411: recycle every mutex of the pool, delete[] locks
d_locks(t) ==
  /\ At(t, "d_locks")
  /\ \/ /\ Live(heap, locks)
        /\ heap' = Torn(Release(heap, locks), this[t], "locks")
        /\ Goto(t, DtorAfter("d_locks"))
        /\ UNCHANGED <<build, env, globals, stk, this, newp, loc, ret, hist, ub, crashed>>
     \/ /\ ~Live(heap, locks)
        /\ \/ Crash("lock pool freed twice")
           \/ /\ ub' = ub \cup {"lock pool freed twice"}
              /\ Goto(t, DtorAfter("d_locks"))
              /\ UNCHANGED <<build, env, globals, heap, stk, this, newp, loc, ret, hist, crashed>>

\* the object itself is released and the destructor returns
d_delete(t) ==
  /\ At(t, "d_delete")
  /\ heap' = Release(heap, this[t])
  /\ Return(t)
  /\ UNCHANGED <<build, env, globals, this, newp, loc, ret, hist, ub, crashed>>


\* ================================================== singleton access, reset
\* if (!instance.get())
\* (variant that constructs on every call)
NeedConstruct_Always(inst) == TRUE
NeedConstruct(inst) == inst = NULL

\* A caller enters OSSLCryptoFactory::i().
CallI(t) ==
  /\ At(t, "idle")
  /\ \/ instance # NULL
     \/ hist.nCtor + Cardinality({u \in Threads : pc[u] \in {"i_check", "i_new"}}) < MaxCtor
  /\ Goto(t, "i_check")
  /\ ret' = [ret EXCEPT ![t] = NoRet]
  /\ UNCHANGED <<build, env, globals, heap, stk, this, newp, loc, hist, ub, crashed>>

\* line 417
i_check(t) ==
  /\ At(t, "i_check")
  /\ Goto(t, IF NeedConstruct(instance) THEN "i_new" ELSE "i_ret")
  /\ UNCHANGED <<build, env, globals, heap, stk, this, newp, loc, ret, hist, ub, crashed>>

\* line 419: new OSSLCryptoFactory() (allocation, then the constructor runs)
i_new(t) ==
  /\ At(t, "i_new")
  /\ heap' = Alloc(heap, t, NewFactory)
  /\ this' = [this EXCEPT ![t] = NewAddr(heap, t, "factory")]
  /\ newp' = [newp EXCEPT ![t] = NewAddr(heap, t, "factory")]
  /\ hist' = [hist EXCEPT !.nCtor = @ + 1, !.ctorsSinceReset = @ + 1]
  /\ Call(t, "c_locks", "i_publish")
  /\ UNCHANGED <<build, env, globals, loc, ret, ub, crashed>>

\* line 419: instance.reset(p): the slot takes p, the object it held is deleted
i_publish(t) ==
  /\ At(t, "i_publish")
  /\ instance' = newp[t]
  /\ IF instance # NULL /\ instance # newp[t]
     THEN /\ this' = [this EXCEPT ![t] = instance]
          /\ Call(t, DtorFirst, "i_ret")
     ELSE /\ Goto(t, "i_ret")
          /\ UNCHANGED <<this, stk>>
  /\ UNCHANGED <<build, env, nlocks, locks, handle, info, tcti, lockingCallback,
                 fipsMode, dlRef, heap, newp, loc, ret, hist, ub, crashed>>

\* line 422: return instance.get();
i_ret(t) ==
  /\ At(t, "i_ret")
  /\ ret' = [ret EXCEPT ![t] = [op |-> "i", arg |-> "", val |-> instance, type |-> ""]]
  /\ hist' = [hist EXCEPT !.retsSinceReset = @ \cup {instance}]
  /\ Goto(t, "idle")
  /\ UNCHANGED <<build, env, globals, heap, stk, this, newp, loc, ub, crashed>>

\* A caller enters OSSLCryptoFactory::reset().
CallReset(t) ==
  /\ At(t, "idle")
  /\ Goto(t, "r_reset")
  /\ ret' = [ret EXCEPT ![t] = NoRet]
  /\ UNCHANGED <<build, env, globals, heap, stk, this, newp, loc, hist, ub, crashed>>

\* line 428: instance.reset(): the slot is emptied, the object it held is deleted
r_reset(t) ==
  /\ At(t, "r_reset")
  /\ instance' = NULL
  /\ hist' = [hist EXCEPT !.ctorsSinceReset = 0, !.retsSinceReset = {}]
  /\ IF instance # NULL
     THEN /\ this' = [this EXCEPT ![t] = instance]
          /\ Call(t, DtorFirst, "r_ret")
     ELSE /\ Goto(t, "r_ret")
          /\ UNCHANGED <<this, stk>>
  /\ UNCHANGED <<build, env, nlocks, locks, handle, info, tcti, lockingCallback,
                 fipsMode, dlRef, heap, newp, loc, ret, ub, crashed>>

\* line 429
r_ret(t) ==
  /\ At(t, "r_ret")
  /\ ret' = [ret EXCEPT ![t] = [op |-> "reset", arg |-> "", val |-> NULL, type |-> ""]]
  /\ Goto(t, "idle")
  /\ UNCHANGED <<build, env, globals, heap, stk, this, newp, loc, hist, ub, crashed>>


\* ====================================================== algorithm dispatch
\* Kind tags: the enumerators the switch statements name, "Unknown" and a
\* value outside the enumeration.
SymKinds == {"Unknown", "AES", "DES", "DES3", "Invalid"}
AsymKinds == {"Unknown", "RSA", "DSA", "DH", "ECDH", "ECDSA", "GOST", "EDDSA", "Invalid"}
HashKinds == {"Unknown", "MD5", "SHA1", "SHA224", "SHA256", "SHA384", "SHA512",
              "GOST", "Invalid"}
MacKinds == {"Unknown", "HMAC_MD5", "HMAC_SHA1", "HMAC_SHA224", "HMAC_SHA256",
             "HMAC_SHA384", "HMAC_SHA512", "HMAC_GOST", "CMAC_DES", "CMAC_AES",
             "Invalid"}
RNGNames == {"Unknown", "Default"}

\* lines 439-457: the class constructed, "NULL" for `return NULL`
\* (variant whose default branch returns an AES object)
getSymmetricAlgorithm_DefaultsToAES(b, a) ==
  CASE a = "AES" -> "OSSLAES"
    [] a \in {"DES", "DES3"} -> "OSSLDES"
    [] OTHER -> "OSSLAES"
getSymmetricAlgorithm(b, a) ==
  CASE a = "AES" -> "OSSLAES"
    [] a \in {"DES", "DES3"} -> "OSSLDES"
    [] OTHER -> "NULL"

\* lines 460-493
getAsymmetricAlgorithm(b, a) ==
  CASE a = "RSA" -> "OSSLRSA"
    [] a = "DSA" -> "OSSLDSA"
    [] a = "DH" -> "OSSLDH"
    [] b.ecc /\ a = "ECDH" -> "OSSLECDH"
    [] b.ecc /\ a = "ECDSA" -> "OSSLECDSA"
    [] b.gost /\ a = "GOST" -> "OSSLGOST"
    [] b.eddsa /\ a = "EDDSA" -> "OSSLEDDSA"
    [] OTHER -> "NULL"

\* lines 496-525
getHashAlgorithm(b, a) ==
  CASE a = "MD5" -> "OSSLMD5"
    [] a = "SHA1" -> "OSSLSHA1"
    [] a = "SHA224" -> "OSSLSHA224"
    [] a = "SHA256" -> "OSSLSHA256"
    [] a = "SHA384" -> "OSSLSHA384"
    [] a = "SHA512" -> "OSSLSHA512"
    [] b.gost /\ a = "GOST" -> "OSSLGOSTR3411"
    [] OTHER -> "NULL"

\* lines 528-561
getMacAlgorithm(b, a) ==
  CASE a = "HMAC_MD5" -> "OSSLHMACMD5"
    [] a = "HMAC_SHA1" -> "OSSLHMACSHA1"
    [] a = "HMAC_SHA224" -> "OSSLHMACSHA224"
    [] a = "HMAC_SHA256" -> "OSSLHMACSHA256"
    [] a = "HMAC_SHA384" -> "OSSLHMACSHA384"
    [] a = "HMAC_SHA512" -> "OSSLHMACSHA512"
    [] b.gost /\ a = "HMAC_GOST" -> "OSSLHMACGOSTR3411"
    [] a = "CMAC_DES" -> "OSSLCMACDES"
    [] a = "CMAC_AES" -> "OSSLCMACAES"
    [] OTHER -> "NULL"

\* A member function is called on the pointer i() returned.
HasInstance == instance # NULL /\ Live(heap, instance)

\* One dispatch call: `new` yields an object no earlier call returned
\* (objects are numbered in order of creation), NULL is returned as is.
Dispatch(t, fn, a, type) ==
  /\ At(t, "idle")
  /\ HasInstance
  /\ hist.nNew < MaxDispatch
  /\ IF type = "NULL"
     THEN /\ ret' = [ret EXCEPT ![t] = [op |-> fn, arg |-> a, val |-> NULL, type |-> ""]]
          /\ UNCHANGED hist
     ELSE /\ ret' = [ret EXCEPT ![t] = [op |-> fn, arg |-> a, val |-> hist.nNew + 1,
                                        type |-> type]]
          /\ hist' = [hist EXCEPT !.nNew = @ + 1]
  /\ UNCHANGED <<build, env, globals, heap, pc, stk, this, newp, loc, ub, crashed>>

CallGetSymmetricAlgorithm(t) ==
  \E a \in SymKinds : Dispatch(t, "getSymmetricAlgorithm", a, getSymmetricAlgorithm(build, a))
CallGetAsymmetricAlgorithm(t) ==
  \E a \in AsymKinds : Dispatch(t, "getAsymmetricAlgorithm", a, getAsymmetricAlgorithm(build, a))
CallGetHashAlgorithm(t) ==
  \E a \in HashKinds : Dispatch(t, "getHashAlgorithm", a, getHashAlgorithm(build, a))
CallGetMacAlgorithm(t) ==
  \E a \in MacKinds : Dispatch(t, "getMacAlgorithm", a, getMacAlgorithm(build, a))

\* lines 564-577
getRNG(f, name) == IF name = "Default" THEN f.rng ELSE NULL

CallGetRNG(t) ==
  /\ At(t, "idle")
  /\ HasInstance
  /\ \E name \in RNGNames :
       LET r == getRNG(heap[instance], name)
       IN IF r = UNINIT
          THEN \* the member was never assigned: the value read is indeterminate
               /\ \E v \in {NULL, UNINIT} :
                    ret' = [ret EXCEPT ![t] = [op |-> "getRNG", arg |-> name,
                                               val |-> v, type |-> ""]]
               /\ ub' = ub \cup {"uninitialised rng"}
          ELSE /\ ret' = [ret EXCEPT ![t] = [op |-> "getRNG", arg |-> name,
                                             val |-> r, type |-> ""]]
               /\ UNCHANGED ub
  /\ UNCHANGED <<build, env, globals, heap, pc, stk, this, newp, loc, hist, crashed>>

\* ========================================== direct use of the plugin loader
\* A caller enters tpm2_tcti_ldr_load(path).
CallLoad(t) ==
  /\ At(t, "idle")
  /\ hist.nLoads < MaxLoads
  /\ \E p \in Paths : loc' = [loc EXCEPT ![t] = [NoLoc EXCEPT !.path = p]]
  /\ hist' = [hist EXCEPT !.nLoads = @ + 1]
  /\ ret' = [ret EXCEPT ![t] = NoRet]
  /\ Call(t, "l_check", "a_load_ret")
  /\ UNCHANGED <<build, env, globals, heap, this, newp, ub, crashed>>

\* the caller receives the result of tpm2_tcti_ldr_load
a_load_ret(t) ==
  /\ At(t, "a_load_ret")
  /\ ret' = [ret EXCEPT ![t] = [op |-> "load", arg |-> "", val |-> loc[t].res, type |-> ""]]
  /\ loc' = [loc EXCEPT ![t] = NoLoc]
  /\ Goto(t, "idle")
  /\ UNCHANGED <<build, env, globals, heap, stk, this, newp, hist, ub, crashed>>

\* A caller runs tpm2_tcti_ldr_unload() (lines 96-104).
CallUnload(t) ==
  /\ At(t, "idle")
  /\ LET u == tpm2_tcti_ldr_unload(handle, info, dlRef)
     IN /\ handle' = u.handle
        /\ info' = u.info
        /\ dlRef' = u.dlRef
  /\ ret' = [ret EXCEPT ![t] = [op |-> "unload", arg |-> "", val |-> NULL, type |-> ""]]
  /\ UNCHANGED <<build, env, instance, nlocks, locks, tcti, lockingCallback, fipsMode,
                 heap, pc, stk, this, newp, loc, hist, ub, crashed>>


\* =========================================================== lock callback
\* (unsigned) n
ToUnsigned(n) == n % (2 ^ UINT_BITS)

\* if ((unsigned) n >= nlocks)
\* (variant that compares without the cast)
OutOfRange_Signed(n, nl) == n >= nl
OutOfRange(n, nl) == ToUnsigned(n) >= nl

\* if (mode & CRYPTO_LOCK)
\* (variant that tests the CRYPTO_WRITE bit)
IsLockMode_TestsWrite(mode) == (mode \div CRYPTO_WRITE) % 2 = 1
IsLockMode(mode) == (mode \div CRYPTO_LOCK) % 2 = 1

\* Mutex::lock() returns once no thread owns the mutex, the caller then owns
\* it; Mutex::unlock() leaves it without owner.
MutexFree(owner) == owner = 0
MutexLock(owner, t) == t
MutexUnlock(owner, t) == 0

LockModes == {CRYPTO_LOCK + CRYPTO_READ, CRYPTO_LOCK + CRYPTO_WRITE,
              CRYPTO_UNLOCK + CRYPTO_READ, CRYPTO_UNLOCK + CRYPTO_WRITE}
LockArgs == (0 - 1)..NumLocks

\* The lock the library means by (mode, n): indices it may use are 0..nlocks-1.
ValidIndex(n) == n \in 0..(nlocks - 1)

\* What the library holds once the callback has returned.
HeldAfter(h, t, mode, n) ==
  IF ~ValidIndex(n) THEN h
  ELSE IF (mode \div CRYPTO_LOCK) % 2 = 1
       THEN [h EXCEPT ![t] = @ \cup {n}]
       ELSE [h EXCEPT ![t] = @ \ {n}]

\* lines 192-212, run by thread t with the arguments (mode, n)
lock_callback(t, mode, n) ==
  /\ LET idx == ToUnsigned(n)
         done(v) == hist' = [hist EXCEPT !.held = HeldAfter(@, t, mode, n),
                                         !.lastCb = [t |-> t, mode |-> mode, n |-> n,
                                                     done |-> v]]
     IN IF OutOfRange(n, nlocks)
        THEN /\ done(0)
             /\ UNCHANGED <<heap, ub>>
        ELSE IF ~(Live(heap, locks) /\ idx \in DOMAIN heap[locks].holder)
        THEN \* locks[(unsigned) n] is read outside the array
             /\ done(0)
             /\ ub' = ub \cup {"lock index outside the pool"}
             /\ UNCHANGED heap
        ELSE IF IsLockMode(mode)
        THEN /\ MutexFree(heap[locks].holder[idx])
             /\ heap' = [heap EXCEPT ![locks].holder[idx] = MutexLock(@, t)]
             /\ done(1)
             /\ UNCHANGED ub
        ELSE /\ heap' = [heap EXCEPT ![locks].holder[idx] = MutexUnlock(@, t)]
             /\ done(2)
             /\ UNCHANGED ub
  /\ UNCHANGED <<build, env, globals, pc, stk, this, newp, loc, ret, crashed>>

\* The crypto library invokes the installed callback while the factory is
\* in use.  It asks for a lock it does not hold and releases only a lock it
\* holds.
LibraryLocks(t) ==
  /\ At(t, "idle")
  /\ \A u \in Threads : pc[u] = "idle"
  /\ lockingCallback = "ours"
  /\ \E mode \in LockModes, n \in LockArgs :
       /\ ValidIndex(n) =>
            IF (mode \div CRYPTO_LOCK) % 2 = 1 THEN n \notin hist.held[t]
                                               ELSE n \in hist.held[t]
       /\ lock_callback(t, mode, n)

\* ========================================================== specifications
\* The thread of the single-threaded specifications.
Main == CHOOSE t \in Threads : \A u \in Threads : t <= u

LdrSteps(t) == \/ l_check(t) \/ l_dlopen(t) \/ l_dlopen2(t) \/ l_dlsym(t)
               \/ l_info(t) \/ l_calloc(t) \/ l_init2(t)
CtorSteps(t) == \/ c_locks(t) \/ c_cb(t) \/ c_fips(t) \/ c_rdrand(t) \/ c_rng(t)
                \/ c_tpm(t) \/ c_tpm_ret(t) \/ c_ctx_alloc(t) \/ c_ctx_init(t)
                \/ c_gost(t) \/ c_ret(t)
DtorSteps(t) == \/ d_gettcti(t) \/ d_sysfin(t) \/ d_tctifin(t) \/ d_unload(t)
                \/ d_gost(t) \/ d_rng(t) \/ d_cb(t) \/ d_locks(t) \/ d_delete(t)
GetSteps(t) == \/ i_check(t) \/ i_new(t) \/ i_publish(t) \/ i_ret(t)
ResetSteps(t) == \/ r_reset(t) \/ r_ret(t)
DispatchCalls(t) == \/ CallGetSymmetricAlgorithm(t) \/ CallGetAsymmetricAlgorithm(t)
                    \/ CallGetHashAlgorithm(t) \/ CallGetMacAlgorithm(t)

\* One thread uses the factory: i(), reset(), getRNG.
Next == \/ CallI(Main) \/ CallReset(Main) \/ CallGetRNG(Main)
        \/ GetSteps(Main) \/ ResetSteps(Main)
        \/ CtorSteps(Main) \/ LdrSteps(Main) \/ DtorSteps(Main)
Spec == InitWith(LifecycleBuilds, AnyFault) /\ [][Next]_vars

\* One thread constructs the factory and calls the dispatch functions.
NextDispatch == \/ CallI(Main) \/ GetSteps(Main) \/ CtorSteps(Main) \/ LdrSteps(Main)
                \/ DispatchCalls(Main)
SpecDispatch == InitWith(Builds, OpenFault) /\ [][NextDispatch]_vars

\* Every thread calls i(); nothing else is called.
NextMT == \E t \in Threads :
            \/ CallI(t) \/ GetSteps(t) \/ CtorSteps(t) \/ LdrSteps(t) \/ DtorSteps(t)
SpecMT == InitWith({PlainBuild}, OpenFault) /\ [][NextMT]_vars

\* One thread calls the plugin loader directly, load after load.
NextLdr == \/ CallLoad(Main) \/ a_load_ret(Main) \/ CallUnload(Main) \/ LdrSteps(Main)
SpecLdr == InitWith({PlainBuild}, AnyFault) /\ [][NextLdr]_vars

\* Every thread calls tpm2_tcti_ldr_load; nothing else is called.
NextLdrMT == \E t \in Threads : CallLoad(t) \/ a_load_ret(t) \/ LdrSteps(t)
SpecLdrMT == InitWith({PlainBuild}, OpenFault) /\ [][NextLdrMT]_vars

\* The main thread constructs the factory; the crypto library then calls
\* the locking callback on every thread.
NextLock == \/ CallI(Main) \/ GetSteps(Main) \/ CtorSteps(Main) \/ LdrSteps(Main)
            \/ \E t \in Threads : LibraryLocks(t)
SpecLock == InitWith({PlainBuild}, OpenFault) /\ [][NextLock]_vars


\* ================================================================= claims
InDtor(t) == \E k \in 1..Len(DtorOrder) : pc[t] = DtorOrder[k]
RdrandFailed(f) == f.rdrand \in {"missing", "init_fail", "default_fail"}
GostFailed(f) == f.gost \in GostOutcomes \ {"ok"}

\* C1: when i() is called concurrently while no instance exists, exactly one
\* construction runs and every caller receives the same instance.
C1_SingleConstruction ==
  /\ hist.nCtor <= 1
  /\ Cardinality(hist.retsSinceReset) <= 1

\* C2: whenever tpm2_tcti_ldr_load fails after the plugin was opened, it
\* returns no context, the buffer it allocated is freed and the loader state
\* is empty again (no plugin handle, no info pointer).
C2_FailedLoadLeavesLoaderEmpty ==
  \A t \in Threads :
    (pc[t] \in {"a_load_ret", "c_tpm_ret"} /\ loc[t].opened # NULL /\ loc[t].res = NULL)
      => /\ loc[t].tcti_ctx # NULL => Freed(heap, loc[t].tcti_ctx)
         /\ handle = NULL
         /\ info = NULL

\* C3: when reset() returns, the singleton slot and the loader bookkeeping
\* (plugin handle, info pointer) are empty, and the transport load of the
\* next construction is not rejected because of a handle left behind.
C3_ResetLeavesCleanSlate ==
  /\ pc[Main] = "r_ret" => instance = NULL /\ handle = NULL /\ info = NULL
  /\ (pc[Main] = "i_check" /\ hist.ctorsSinceReset = 0) => instance = NULL
  /\ (pc[Main] = "l_check" /\ Head(stk[Main]) = "c_tpm_ret") => handle = NULL
W3_ReloadAfterFailedBringUp ==
  /\ pc[Main] = "l_dlopen"
  /\ hist.nCtor = 2
  /\ \E a \in DOMAIN heap : heap[a].kind = "sysctx" /\ Freed(heap, a)
  /\ \E a \in DOMAIN heap : heap[a].kind = "tctictx" /\ Live(heap, a)

\* C4: in a single-threaded run, construction runs exactly once between two
\* consecutive resets and every i() in that interval returns the same
\* (non-null) instance.
C4_OneConstructionPerEpoch ==
  /\ hist.ctorsSinceReset <= 1
  /\ Cardinality(hist.retsSinceReset) <= 1
  /\ hist.retsSinceReset # {} => hist.ctorsSinceReset = 1 /\ NULL \notin hist.retsSinceReset
W4_SecondCallAfterReset ==
  /\ pc[Main] = "i_ret"
  /\ hist.retsSinceReset = {instance}
  /\ hist.nCtor = 2

\* C5: tpm2_tcti_ldr_load entered while a plugin handle is set returns no
\* context at once; the handle, the info pointer, the transport context and
\* the plugin modules are untouched and no open, symbol lookup or initialiser
\* call is made.
C5_RejectedLoadHasNoEffect ==
  [][\A t \in Threads :
       (pc[t] = "l_check" /\ pc'[t] # "l_check" /\ handle # NULL)
         => /\ pc'[t] = Head(stk[t])
            /\ loc'[t].res = NULL
            /\ loc'[t].opens = <<>> /\ loc'[t].calls = <<>>
            /\ handle' = handle /\ info' = info /\ tcti' = tcti
            /\ dlRef' = dlRef /\ heap' = heap]_vars
W5_RejectedWhileActive ==
  \E t \in Threads :
    /\ pc[t] = "a_load_ret"
    /\ loc[t].res = NULL /\ loc[t].opens = <<>>
    /\ handle # NULL /\ dlRef[handle] > 0
    /\ \E a \in DOMAIN heap : heap[a].kind = "tctictx" /\ Live(heap, a) /\ heap[a].inited

\* C6: in the destructor of a factory whose command context is bound to a
\* transport, the nested transport context has been retrieved by the time the
\* command context is freed, and it has been finalized and freed by the time
\* the loader's handle or info pointer is cleared.
C6_TeardownOrder ==
  \A t \in Threads :
    (InDtor(t) /\ heap[this[t]].tpm = "ok")
      => /\ Freed(heap, heap[this[t]].context) => loc[t].tcti_ctx = tcti \/ Freed(heap, tcti)
         /\ (handle = NULL \/ info = NULL) => Freed(heap, tcti)
W6_BoundFactoryUnloaded ==
  /\ pc[Main] = "d_gost"
  /\ heap[this[Main]].tpm = "ok"
  /\ handle = NULL /\ Freed(heap, tcti) /\ Freed(heap, heap[this[Main]].context)

\* C7: if the RDRAND engine is missing or fails, or the GOST engine cannot be
\* brought up, i() still returns a non-null instance whose random generator
\* exists, and getRNG(Default) returns that generator.
C7_EngineFailureKeepsRng ==
  \A t \in Threads :
    (pc[t] = "idle" /\ HasInstance /\ (RdrandFailed(heap[instance]) \/ GostFailed(heap[instance])))
      => /\ heap[instance].rng # NULL
         /\ Live(heap, heap[instance].rng)
         /\ heap[heap[instance].rng].kind = "rng"
         /\ ret[t].op = "i" => ret[t].val = instance
         /\ (ret[t].op = "getRNG" /\ ret[t].arg = "Default") => ret[t].val = heap[instance].rng
W7_RngAfterEngineFailures ==
  /\ pc[Main] = "idle" /\ HasInstance
  /\ heap[instance].rdrand = "init_fail" /\ heap[instance].gost = "missing"
  /\ ret[Main].op = "getRNG" /\ ret[Main].arg = "Default" /\ ret[Main].val # NULL

\* The classes compiled into a build (the #include lines 37-60) and the class
\* each kind tag stands for.
Compiled(b) ==
  {"OSSLAES", "OSSLDES", "OSSLMD5", "OSSLSHA1", "OSSLSHA224", "OSSLSHA256",
   "OSSLSHA384", "OSSLSHA512", "OSSLCMACDES", "OSSLCMACAES", "OSSLHMACMD5",
   "OSSLHMACSHA1", "OSSLHMACSHA224", "OSSLHMACSHA256", "OSSLHMACSHA384",
   "OSSLHMACSHA512", "OSSLRSA", "OSSLDSA", "OSSLDH"}
    \cup (IF b.ecc THEN {"OSSLECDH", "OSSLECDSA"} ELSE {})
    \cup (IF b.gost THEN {"OSSLGOSTR3411", "OSSLGOST", "OSSLHMACGOSTR3411"} ELSE {})
    \cup (IF b.eddsa THEN {"OSSLEDDSA"} ELSE {})
ClassOf(fn, a) ==
  CASE fn = "getSymmetricAlgorithm" /\ a = "AES" -> "OSSLAES"
    [] fn = "getSymmetricAlgorithm" /\ a \in {"DES", "DES3"} -> "OSSLDES"
    [] fn = "getAsymmetricAlgorithm" /\ a \in {"RSA", "DSA", "DH", "ECDH", "ECDSA", "GOST", "EDDSA"}
         -> "OSSL" \o a
    [] fn = "getHashAlgorithm" /\ a \in {"MD5", "SHA1", "SHA224", "SHA256", "SHA384", "SHA512"}
         -> "OSSL" \o a
    [] fn = "getHashAlgorithm" /\ a = "GOST" -> "OSSLGOSTR3411"
    [] fn = "getMacAlgorithm" /\ a = "HMAC_MD5" -> "OSSLHMACMD5"
    [] fn = "getMacAlgorithm" /\ a = "HMAC_SHA1" -> "OSSLHMACSHA1"
    [] fn = "getMacAlgorithm" /\ a = "HMAC_SHA224" -> "OSSLHMACSHA224"
    [] fn = "getMacAlgorithm" /\ a = "HMAC_SHA256" -> "OSSLHMACSHA256"
    [] fn = "getMacAlgorithm" /\ a = "HMAC_SHA384" -> "OSSLHMACSHA384"
    [] fn = "getMacAlgorithm" /\ a = "HMAC_SHA512" -> "OSSLHMACSHA512"
    [] fn = "getMacAlgorithm" /\ a = "HMAC_GOST" -> "OSSLHMACGOSTR3411"
    [] fn = "getMacAlgorithm" /\ a = "CMAC_DES" -> "OSSLCMACDES"
    [] fn = "getMacAlgorithm" /\ a = "CMAC_AES" -> "OSSLCMACAES"
    [] OTHER -> "none"
DispatchFns == {"getSymmetricAlgorithm", "getAsymmetricAlgorithm", "getHashAlgorithm",
                "getMacAlgorithm"}

\* C8: a dispatch call with a kind the build supports returns a non-null,
\* newly constructed object of the class of that kind; with any other kind it
\* returns NULL.
C8_DispatchTable ==
  \A t \in Threads :
    ret[t].op \in DispatchFns =>
      IF ClassOf(ret[t].op, ret[t].arg) \in Compiled(build)
      THEN /\ ret[t].val # NULL
           /\ ret[t].val = hist.nNew
           /\ ret[t].type = ClassOf(ret[t].op, ret[t].arg)
      ELSE ret[t].val = NULL
W8_SecondProduct ==
  /\ ret[Main].op = "getSymmetricAlgorithm" /\ ret[Main].arg = "AES"
  /\ ret[Main].val = 2

\* C9: at most one thread holds lock i at any time: between an acquire
\* callback for i and the matching release no other thread's acquire callback
\* for i completes.
C9_MutualExclusion ==
  \A i \in 0..(NumLocks - 1) :
    Cardinality({t \in Threads : i \in hist.held[t]}) <= 1
W9_ContendedLocks ==
  \E t, u \in Threads :
    /\ t # u
    /\ 0 \in hist.held[t]
    /\ hist.lastCb.t = u /\ hist.lastCb.done = 1

\* C10: a callback invoked with an index outside 0..nlocks-1 (a negative one
\* included), in either mode, changes no lock of the pool.
C10_OutOfRangeIsNoOp ==
  [][(hist'.lastCb # hist.lastCb /\ hist'.lastCb.n \notin 0..(nlocks - 1))
       => /\ heap' = heap
          /\ ub' = ub
          /\ hist'.held = hist.held
          /\ hist'.lastCb.done = 0]_vars
W10_NegativeIndexWhileHeld ==
  /\ hist.lastCb.n < 0
  /\ hist.lastCb.mode = CRYPTO_LOCK + CRYPTO_WRITE
  /\ \E t \in Threads : hist.held[t] # {}

\* C11: within one factory lifetime getRNG(Default) returns, on every call,
\* the one generator the constructor created, and getRNG with any other name
\* returns NULL.
C11_GetRngReturnsTheGenerator ==
  \A t \in Threads :
    (pc[t] = "idle" /\ HasInstance /\ ret[t].op = "getRNG")
      => IF ret[t].arg = "Default"
         THEN /\ ret[t].val = heap[instance].rng
              /\ Live(heap, ret[t].val)
              /\ heap[ret[t].val].kind = "rng"
         ELSE ret[t].val = NULL
W11_GetRngOnAbortedConstruction ==
  /\ pc[Main] = "idle" /\ HasInstance
  /\ heap[instance].rng = UNINIT
  /\ ret[Main].op = "getRNG" /\ ret[Main].arg = "Default"

\* The buffers and objects a construction acquires.
ResourceKinds == {"sysctx", "tctictx", "pool", "rng"}

\* C12: whatever failed during construction, reset() releases each resource
\* the construction acquired exactly once: the destructor hands to
\* Tss2_Sys_GetTctiContext / Tss2_Sys_Finalize / free only a command context
\* that is established (or NULL), deletes only a generator that exists, and
\* when reset() has returned no acquired buffer is still allocated.
C12_ReleasedExactlyOnce ==
  \A t \in Threads :
    /\ pc[t] \in {"d_gettcti", "d_sysfin"}
         => LET c == heap[this[t]].context IN c = NULL \/ Live(heap, c)
    /\ pc[t] = "d_rng"
         => LET r == heap[this[t]].rng IN r = NULL \/ Live(heap, r)
    /\ pc[t] = "r_ret"
         => \A a \in DOMAIN heap : heap[a].kind \in ResourceKinds => Freed(heap, a)
W12_LeakedTransportContext ==
  /\ pc[Main] = "r_ret"
  /\ ub = {"context used after free", "context freed twice"}
  /\ \E a \in DOMAIN heap : heap[a].kind = "tctictx" /\ Live(heap, a)

\* The hardware bring-up of a factory failed (transport load, command-context
\* allocation or command-context initialisation).
TpmFailed(f) == f.tpm \in {"load_failed", "alloc_failed", "init_failed"}

\* C13: when the transport load or the command-context setup fails, the
\* constructor goes on to the GOST engine bring-up: at the end of construction
\* the engine steps have run, and eg is present exactly when they succeeded.
C13_GostRunsAfterTpmFailure ==
  \A t \in Threads :
    (pc[t] = "c_ret" /\ build.gost /\ TpmFailed(heap[this[t]]))
      => /\ heap[this[t]].gost \in GostOutcomes
         /\ heap[this[t]].eg # NULL <=> heap[this[t]].gost = "ok"
         /\ heap[this[t]].eg # UNINIT
W13_GostSkippedAfterLoadFailure ==
  /\ pc[Main] = "c_ret" /\ build.gost
  /\ heap[this[Main]].tpm = "load_failed"
  /\ heap[this[Main]].gost = "notrun" /\ heap[this[Main]].eg = UNINIT

\* The place of a teardown step in the reverse of the construction order.
TeardownRank(what) ==
  CASE what = "gost" -> 1
    [] what \in {"context", "tcti", "unload"} -> 2
    [] what = "rng" -> 3
    [] what = "callback" -> 4
    [] what = "locks" -> 5

\* C14: the destructor tears down in the reverse of the construction order:
\* GOST engine, then hardware context and transport, then the generator, then
\* the locking callback, then the lock pool; no step runs before an earlier
\* one of this list.
C14_ReverseTeardownOrder ==
  \A t \in Threads :
    InDtor(t) =>
      LET done == heap[this[t]].torn
      IN \A i, j \in 1..Len(done) :
           i < j => TeardownRank(done[i]) <= TeardownRank(done[j])
W14_EngineFinishedAfterHardware ==
  /\ pc[Main] = "d_rng"
  /\ heap[this[Main]].torn = <<"context", "tcti", "unload", "gost">>

\* The statements of tpm2_tcti_ldr_load behind the check of `handle`.
LoaderBody == {"l_dlopen", "l_dlopen2", "l_dlsym", "l_info", "l_calloc", "l_init2"}

\* C15: concurrent calls of tpm2_tcti_ldr_load are serialized or rejected:
\* never are two threads past the check of `handle` at once, so never have
\* two calls opened a plugin or obtained a context at the same time.
C15_LoadsAreSerialized ==
  /\ Cardinality({t \in Threads : pc[t] \in LoaderBody}) <= 1
  /\ Cardinality({t \in Threads : pc[t] \in LoaderBody \cup {"a_load_ret"}
                                   /\ loc[t].opened # NULL}) <= 1
W15_TwoLoadsReturnContexts ==
  \E t, u \in Threads :
    /\ t # u
    /\ pc[t] = "a_load_ret" /\ pc[u] = "a_load_ret"
    /\ loc[t].res # NULL /\ loc[u].res # NULL /\ loc[t].res # loc[u].res
    /\ hist.nLoads = 2

\* C16: in every run of tpm2_tcti_ldr_load the initialiser is called at most
\* twice; the first call has a null buffer; the second is made only after the
\* first succeeded and reported a size, on a buffer allocated with exactly
\* that size; a context is returned only when both calls succeeded, and it is
\* the buffer of the second call.
C16_TwoCallSizingProtocol ==
  \A t \in Threads :
    LET cs == loc[t].calls
    IN /\ Len(cs) <= 2
       /\ Len(cs) >= 1 => cs[1].buf = NULL
       /\ Len(cs) = 2
            => /\ loc[t].size = TctiSize(loc[t].opened)
               /\ cs[2].size = loc[t].size
               /\ cs[2].buf # NULL /\ cs[2].buf \in DOMAIN heap
               /\ heap[cs[2].buf].kind = "tctictx"
               /\ Live(heap, cs[2].buf) => heap[cs[2].buf].size = TctiSize(loc[t].opened)
       /\ loc[t].res # NULL
            => /\ Len(cs) = 2 /\ loc[t].res = cs[2].buf
               /\ Live(heap, loc[t].res) /\ heap[loc[t].res].inited
W16_ContextAfterBothCalls ==
  /\ pc[Main] = "a_load_ret"
  /\ loc[Main].res # NULL /\ Len(loc[Main].calls) = 2
  /\ loc[Main].opened = 2

\* C17 (builds with the legacy locking API): a callback installed by another
\* component is never replaced or removed, neither while the factory lives
\* nor by reset(); when none was installed, a live factory has its own
\* callback installed and after reset() no callback is installed.
C17_ForeignCallbackUntouched ==
  /\ [](build.legacy =>
          /\ (pc[Main] = "idle" /\ HasInstance) => lockingCallback \in {"ours", "other"}
          /\ pc[Main] = "r_ret" => lockingCallback \in {"none", "other"})
  /\ [][build.legacy =>
          (lockingCallback = "other" <=> lockingCallback' = "other")]_vars
W17_ForeignCallbackSurvivesReset ==
  /\ build.legacy
  /\ pc[Main] = "r_ret" /\ hist.nCtor = 1
  /\ lockingCallback = "other"

\* C18: tpm2_tcti_ldr_unload is idempotent: from every loader state one call
\* and two calls in a row end in the same state, with `handle` and `info`
\* cleared, so that a following load is not rejected; no call of it closes a
\* plugin module.
C18_UnloadIdempotent ==
  /\ [](LET u1 == tpm2_tcti_ldr_unload(handle, info, dlRef)
            u2 == tpm2_tcti_ldr_unload(u1.handle, u1.info, u1.dlRef)
        IN /\ u1.handle = NULL /\ u1.info = NULL
           /\ u1.dlRef = dlRef
           /\ u2 = u1
           /\ ~LoadRejected(u1.handle))
  /\ [][\A t \in Threads :
          (pc[t] = "idle" /\ pc'[t] = "idle" /\ ret'[t].op = "unload")
            => handle' = NULL /\ info' = NULL /\ dlRef' = dlRef]_vars
W18_UnloadedWithModuleMapped ==
  /\ pc[Main] = "idle" /\ ret[Main].op = "unload"
  /\ handle = NULL /\ info = NULL
  /\ \E l \in Libs : dlRef[l] > 0
  /\ \E a \in DOMAIN heap : heap[a].kind = "tctictx" /\ Live(heap, a) /\ heap[a].inited

\* C19: tpm2_tcti_ldr_load opens the name as given first and opens
\* libtss2-tcti-<name>.so.0 only after that open failed; when no open succeeds
\* it returns no context and leaves `handle` and `info` empty.
C19_VerbatimThenFormatted ==
  \A t \in Threads :
    LET os == loc[t].opens
    IN /\ Len(os) <= 2
       /\ Len(os) >= 1 => os[1] = loc[t].path
       /\ Len(os) = 2
            => /\ os[2].name = <<"libtss2-tcti-">> \o loc[t].path.name \o <<".so.0">>
               /\ loc[t].opened # 1
       /\ loc[t].opened = 1 => Len(os) = 1
       /\ loc[t].opened = 2 => Len(os) = 2
       /\ (pc[t] \in {"a_load_ret", "c_tpm_ret"} /\ Len(os) >= 1 /\ loc[t].opened = NULL)
            => loc[t].res = NULL /\ handle = NULL /\ info = NULL
W19_BothOpensFailed ==
  /\ pc[Main] = "a_load_ret"
  /\ Len(loc[Main].opens) = 2 /\ loc[Main].opened = NULL
  /\ loc[Main].res = NULL /\ handle = NULL

\* C20: in every state in which the factory's lock_callback is registered,
\* `locks` is an allocated pool holding exactly nlocks mutexes: the callback
\* is installed after the pool is filled and removed before it is recycled.
C20_CallbackImpliesPool ==
  lockingCallback = "ours"
    => /\ locks # NULL /\ Live(heap, locks)
       /\ heap[locks].kind = "pool"
       /\ heap[locks].size = nlocks
       /\ DOMAIN heap[locks].holder = 0..(nlocks - 1)
W20_CallbackOverFreedPool ==
  /\ HasInstance
  /\ lockingCallback = "ours"
  /\ Freed(heap, locks)
  /\ \E t \in Threads : pc[t] = "i_ret" /\ newp[t] = instance

====
